---------------------------- MODULE Spec2Model ----------------------------
(***************************************************************************)
(* A model of src/src/portfolio.py: the portfolio constructor, the Monte   *)
(* Carlo VaR/CVaR estimator, the risk metrics record, the scenario shock   *)
(* model and the stress-test loop.                                         *)
(*                                                                         *)
(* Numbers.  The program computes in IEEE doubles.  The model computes in  *)
(* exact rationals extended with NaN and the two infinities, so that a     *)
(* division by zero, the mean of an empty slice and the standard deviation *)
(* of fewer than two observations give what numpy/pandas give.  Rounding   *)
(* error of the doubles is not modelled.  A square root is never taken:    *)
(* a standard deviation is carried as its variance, and a value of the     *)
(* form s * sqrt(q) as the pair (s, q).                                    *)
(***************************************************************************)
EXTENDS Integers, Sequences, FiniteSets, TLC

(***************************************************************************)
(* Extended rationals                                                      *)
(***************************************************************************)
Abs(i) == IF i < 0 THEN -i ELSE i

RECURSIVE GCD(_, _)
GCD(a, b) == IF b = 0 THEN a ELSE GCD(b, a % b)

\* The rational n/d (d # 0) in lowest terms with a positive denominator.
Q(n, d) ==
    LET s == IF d < 0 THEN -1 ELSE 1
        g == GCD(Abs(n), Abs(d))
    IN  [k |-> "num", n |-> (s * n) \div g, d |-> (s * d) \div g]

I(n) == Q(n, 1)
NaN  == [k |-> "nan", n |-> 0, d |-> 0]
PInf == [k |-> "inf", n |-> 1, d |-> 0]
NInf == [k |-> "inf", n |-> -1, d |-> 0]

IsNaN(x) == x.k = "nan"
IsNum(x) == x.k = "num"
Sgn(x) == IF x.n > 0 THEN 1 ELSE IF x.n < 0 THEN -1 ELSE 0
Infinity(s) == IF s < 0 THEN NInf ELSE PInf

Neg(x) == [x EXCEPT !.n = -x.n]

Add(x, y) ==
    IF IsNaN(x) \/ IsNaN(y) THEN NaN
    ELSE IF x.k = "inf" THEN (IF y.k = "inf" /\ y.n # x.n THEN NaN ELSE x)
    ELSE IF y.k = "inf" THEN y
    ELSE LET g == GCD(x.d, y.d)
         IN  Q(x.n * (y.d \div g) + y.n * (x.d \div g), (x.d \div g) * y.d)

Sub(x, y) == Add(x, Neg(y))

Mul(x, y) ==
    IF IsNaN(x) \/ IsNaN(y) THEN NaN
    ELSE IF x.k = "inf" \/ y.k = "inf"
         THEN (IF Sgn(x) * Sgn(y) = 0 THEN NaN ELSE Infinity(Sgn(x) * Sgn(y)))
    ELSE LET g == GCD(Abs(x.n), y.d)
             h == GCD(Abs(y.n), x.d)
         IN  Q((x.n \div g) * (y.n \div h), (x.d \div h) * (y.d \div g))

\* Division of doubles: x/0 is NaN for x = 0 and an infinity of x's sign
\* otherwise (the zero divisors of the program are all +0.0).
Div(x, y) ==
    IF IsNaN(x) \/ IsNaN(y) THEN NaN
    ELSE IF y.k = "inf" THEN (IF x.k = "inf" THEN NaN ELSE I(0))
    ELSE IF x.k = "inf" THEN Infinity(x.n * (IF y.n < 0 THEN -1 ELSE 1))
    ELSE IF y.n = 0 THEN (IF x.n = 0 THEN NaN ELSE Infinity(x.n))
    ELSE Mul(x, Q(y.d, y.n))

\* Comparisons of doubles: every comparison with NaN is false.
Lt(x, y) ==
    /\ ~IsNaN(x)
    /\ ~IsNaN(y)
    /\ IF x.k = "inf" \/ y.k = "inf"
       THEN (IF x.k = "inf" THEN x.n ELSE 0) < (IF y.k = "inf" THEN y.n ELSE 0)
       ELSE LET g == GCD(x.d, y.d)
            IN  x.n * (y.d \div g) < y.n * (x.d \div g)

Le(x, y) == ~IsNaN(x) /\ ~IsNaN(y) /\ ~Lt(y, x)
Gt(x, y) == Lt(y, x)
Ge(x, y) == Le(y, x)
Sq(x) == Mul(x, x)

\* s * sqrt(q) for a sign s and a rational q >= 0, kept exact.
Surd(s, q) ==
    IF IsNaN(q) THEN [k |-> "nan", s |-> 0, q |-> NaN]
    ELSE IF q.k = "inf" THEN [k |-> "inf", s |-> s, q |-> PInf]
    ELSE [k |-> "num", s |-> (IF q.n = 0 THEN 0 ELSE s), q |-> (IF s = 0 THEN I(0) ELSE q)]

(***************************************************************************)
(* Series: pandas Series / numpy arrays as sequences of extended rationals *)
(***************************************************************************)
RECURSIVE SumSeq(_)
SumSeq(s) == IF s = <<>> THEN I(0) ELSE Add(Head(s), SumSeq(Tail(s)))

NotNaN(x) == ~IsNaN(x)
DropNaN(s) == SelectSeq(s, NotNaN)

\* numpy's ndarray.mean(): the mean of an empty array is NaN (0.0/0).
ArrayMean(s) == Div(SumSeq(s), I(Len(s)))

\* pandas Series.mean(): NaN entries are skipped; NaN when nothing is left.
SeriesMean(s) == ArrayMean(DropNaN(s))

\* pandas Series.var() (ddof = 1): NaN with fewer than two observations.
SeriesVar(s) ==
    LET v == DropNaN(s)
        m == ArrayMean(v)
    IN  IF Len(v) < 2 THEN NaN
        ELSE Div(SumSeq([i \in 1..Len(v) |-> Sq(Sub(v[i], m))]), I(Len(v) - 1))

\* numpy.sort of an array of numbers, ascending (insertion sort; NaN last).
RECURSIVE Insert(_, _)
Insert(x, s) ==
    IF s = <<>> THEN <<x>>
    ELSE IF IsNaN(Head(s)) \/ Le(x, Head(s)) THEN <<x>> \o s
    ELSE <<Head(s)>> \o Insert(x, Tail(s))

Unsorted(s) == s

RECURSIVE SortAsc(_)
SortAsc(s) == IF s = <<>> THEN <<>> ELSE Insert(Head(s), SortAsc(Tail(s)))

(***************************************************************************)
(* State.  One frame per function of portfolio.py: a record of the call's  *)
(* arguments, its locals and its outcome ("status" is "ok" for a normal    *)
(* return and the raised exception otherwise).  rng is the state of        *)
(* numpy's global random source.                                           *)
(***************************************************************************)
VARIABLES cpFrame, mcFrame, rmFrame, gsFrame, stFrame, rng

vars == <<cpFrame, mcFrame, rmFrame, gsFrame, stFrame, rng>>

Idle == [pc |-> "idle"]
NoRng == [cycle |-> <<0>>, pos |-> 0]

(***************************************************************************)
(* construct_portfolio                                                     *)
(***************************************************************************)
RequiredColumns == <<"MKT", "SMB", "HML", "RMW", "CMA">>
ValidRegimes == {"Expansion", "Recession", "Contraction", "Recovery"}

\* The if/elif/else chain of lines 27-34: every label that is none of the
\* first three takes the else branch.
RegimeWeights(label) ==
    IF label = "Expansion" THEN <<Q(40, 100), Q(15, 100), Q(15, 100), Q(15, 100), Q(15, 100)>>
    ELSE IF label = "Recession" THEN <<Q(15, 100), Q(22, 100), Q(22, 100), Q(20, 100), Q(21, 100)>>
    ELSE IF label = "Contraction" THEN <<Q(15, 100), Q(15, 100), Q(30, 100), Q(25, 100), Q(15, 100)>>
    ELSE <<Q(25, 100), Q(25, 100), Q(15, 100), Q(15, 100), Q(20, 100)>>

NormalizeWeightsByCount(weights) == [i \in 1..Len(weights) |-> Div(weights[i], I(Len(weights)))]

\* weights / weights.sum()
NormalizeWeights(weights) == [i \in 1..Len(weights) |-> Div(weights[i], SumSeq(weights))]

\* DataFrame.dot(ndarray): the columns are matched to the weights by
\* position, never by name; pandas raises ValueError when the number of
\* columns differs from the number of weights.
FrameDot(frame, weights) ==
    IF Len(frame.columns) # Len(weights)
    THEN [status |-> "ValueError", values |-> <<>>]
    ELSE [status |-> "ok",
          values |-> [r \in 1..Len(frame.rows) |->
                        SumSeq([j \in 1..Len(weights) |-> Mul(frame.rows[r][j], weights[j])])]]

construct_portfolio(factors, regime) ==
    LET weights == NormalizeWeights(RegimeWeights(regime))
        dot == FrameDot(factors, weights)
    IN  [pc |-> "done", factors |-> factors, regime |-> regime, weights |-> weights,
         status |-> dot.status, portfolio_returns |-> dot.values]

\* Inputs: factor frames with the documented columns, with a column renamed,
\* reordered, missing or added, and regime labels inside and outside the table.
MaxRows == 2
RowSeeds == 0..2
ColumnLayouts ==
    { RequiredColumns,
      <<"MKT", "SMB", "HML", "RMW", "RF">>,
      <<"SMB", "MKT", "HML", "RMW", "CMA">>,
      <<"MKT", "SMB", "HML", "RMW">>,
      <<"MKT", "SMB", "HML", "RMW", "CMA", "RF">> }
RegimeLabels == ValidRegimes \cup {"Stagflation", ""}

FactorRow(seed, width) == [j \in 1..width |-> Q(((seed + 2 * j) % 5) - 2, 100)]

FactorFrames ==
    { [columns |-> c, rows |-> [r \in 1..n |-> FactorRow(seeds[r], Len(c))]] :
        c \in ColumnLayouts, n \in 1..MaxRows, seeds \in [1..MaxRows -> RowSeeds] }

InitPortfolio ==
    /\ cpFrame \in { [pc |-> "call", factors |-> f, regime |-> g] :
                       f \in FactorFrames, g \in RegimeLabels }
    /\ mcFrame = Idle /\ rmFrame = Idle /\ gsFrame = Idle /\ stFrame = Idle
    /\ rng = NoRng

ConstructPortfolio ==
    /\ cpFrame.pc = "call"
    /\ cpFrame' = construct_portfolio(cpFrame.factors, cpFrame.regime)
    /\ UNCHANGED <<mcFrame, rmFrame, gsFrame, stFrame, rng>>

NextPortfolio == ConstructPortfolio
SpecPortfolio == InitPortfolio /\ [][NextPortfolio]_vars

HasRequiredColumns(frame) ==
    \A j \in 1..Len(RequiredColumns) :
        \E i \in 1..Len(frame.columns) : frame.columns[i] = RequiredColumns[j]

\* C6: for each of the four regime labels the weight vector applied to the
\* factor columns has five non-negative entries that sum to 1.
C6_WeightsSumToOne ==
    (cpFrame.pc = "done" /\ cpFrame.regime \in ValidRegimes) =>
        /\ Len(cpFrame.weights) = 5
        /\ \A i \in 1..5 : IsNum(cpFrame.weights[i]) /\ cpFrame.weights[i].n >= 0
        /\ SumSeq(cpFrame.weights) = I(1)

C6_Witness ==
    /\ cpFrame.pc = "done"
    /\ cpFrame.regime = "Recession"
    /\ cpFrame.status = "ok"
    /\ cpFrame.weights[2] = Q(22, 100)

\* C7: a regime label outside the four is rejected with an InvalidRegime
\* error and no portfolio series is returned.
C7_InvalidRegimeRejected ==
    (cpFrame.pc = "done" /\ cpFrame.regime \notin ValidRegimes) =>
        /\ cpFrame.status = "InvalidRegime"
        /\ cpFrame.portfolio_returns = <<>>

\* C8: an input that lacks one of the required named columns fails with
\* MissingFactorError and yields no portfolio series.
C8_MissingColumnRejected ==
    (cpFrame.pc = "done" /\ ~HasRequiredColumns(cpFrame.factors)) =>
        /\ cpFrame.status = "MissingFactorError"
        /\ cpFrame.portfolio_returns = <<>>


(***************************************************************************)
(* Python and numpy helpers                                                *)
(***************************************************************************)
\* int(x) of a finite float: truncation toward zero.
PyInt(x) == IF x.n >= 0 THEN x.n \div x.d ELSE -((-x.n) \div x.d)

\* a[i] with Python's index rules (0-based, negative from the end).
IndexInRange(a, i) == -Len(a) <= i /\ i < Len(a)
PyIndex(a, i) == IF i >= 0 THEN a[i + 1] ELSE a[Len(a) + i + 1]

\* a[:i] with Python's slice rules.
SliceStop(a, i) ==
    IF i >= 0 THEN (IF i < Len(a) THEN i ELSE Len(a))
    ELSE (IF Len(a) + i > 0 THEN Len(a) + i ELSE 0)
PySliceTo(a, i) == SubSeq(a, 1, SliceStop(a, i))

(***************************************************************************)
(* The random source.  A pseudo-random generator is a deterministic        *)
(* function of its state: the state is a cycle of raw outputs and a        *)
(* position in it.  Which cycle it is, is free.                            *)
(***************************************************************************)
RngPeriod == 3
RngOutputs == 0..2

RngCycles == [1..RngPeriod -> RngOutputs]
RngDraw(r, i) == r.cycle[((r.pos + i - 1) % Len(r.cycle)) + 1]
RngAdvance(r, n) == [r EXCEPT !.pos = (r.pos + n) % Len(r.cycle)]

\* The deviation scale * Z of one draw of a location-scale family with
\* scale > 0 (Z standard normal, Student t or skew-normal): any real.
Noise(u) == Q(u - 1, 2)

(***************************************************************************)
(* monte_carlo_var_cvar                                                    *)
(***************************************************************************)
SupportedMethods == {"norm", "t", "empirical", "skewed"}

\* Series.skew() is defined from three observations on; only whether it is
\* defined matters to the sampler's argument check.
SkewDefined(returns) == Len(DropNaN(returns)) >= 3

\* One location-scale sample of size n: loc + scale * Z.  With scale = 0
\* every draw is loc; with scale NaN (fewer than two observations) numpy's
\* normal yields NaN.
LocationScaleSample(loc, sigma2, n, r) ==
    [i \in 1..n |->
        IF IsNaN(sigma2) THEN NaN
        ELSE IF sigma2.n = 0 THEN loc
        ELSE Add(loc, Noise(RngDraw(r, i)))]

\* np.random.choice(returns, size = n, replace = True)
BootstrapSample(returns, n, r) ==
    [i \in 1..n |-> returns[(RngDraw(r, i) % Len(returns)) + 1]]

SimulateDefaultingToNormal(returns, mu, sigma2, n, horizon, method, r) ==
    IF method = "empirical"
    THEN [status |-> "ok", sample |-> BootstrapSample(returns, n, r)]
    ELSE [status |-> "ok",
          sample |-> LocationScaleSample(Mul(mu, I(horizon)), sigma2, n, r)]

\* Lines 61-77: the sample, or the exception raised instead.  scipy's rvs
\* raises ValueError (domain error) for a NaN scale or shape.
Simulate(returns, mu, sigma2, n, horizon, method, r) ==
    IF method = "norm"
    THEN [status |-> "ok",
          sample |-> LocationScaleSample(Mul(mu, I(horizon)), sigma2, n, r)]
    ELSE IF method = "t"
    THEN IF IsNaN(sigma2)
         THEN [status |-> "ValueError: domain", sample |-> <<>>]
         ELSE [status |-> "ok",
               sample |-> LocationScaleSample(Mul(mu, I(horizon)), sigma2, n, r)]
    ELSE IF method = "empirical"
    THEN [status |-> "ok", sample |-> BootstrapSample(returns, n, r)]
    ELSE IF method = "skewed"
    THEN IF IsNaN(sigma2) \/ ~SkewDefined(returns)
         THEN [status |-> "ValueError: domain", sample |-> <<>>]
         ELSE [status |-> "ok",
               sample |-> LocationScaleSample(Mul(mu, I(horizon)), sigma2, n, r)]
    ELSE [status |-> "ValueError: Unsupported method", sample |-> <<>>]

\* int(n_simulations * alpha)
VarIndex(n_simulations, alpha) == PyInt(Mul(I(n_simulations), alpha))

TailSliceInclusive(sorted_returns, var_index) == PySliceTo(sorted_returns, var_index + 1)

\* sorted_returns[:var_index]
TailSlice(sorted_returns, var_index) == PySliceTo(sorted_returns, var_index)

\* -sorted_returns[:var_index].mean(): NaN for an empty slice.
Cvar(tail) == Neg(ArrayMean(tail))

\* The frame of one call after it returned or raised, and the random state
\* it leaves behind.
monte_carlo_var_cvar(returns, confidence_level, n_simulations, horizon, method, r) ==
    LET alpha == Sub(I(1), confidence_level)
        mu == SeriesMean(returns)
        sigma2 == SeriesVar(returns)
        sim == Simulate(returns, mu, sigma2, n_simulations, horizon, method, r)
        sorted_returns == SortAsc(sim.sample)
        var_index == VarIndex(n_simulations, alpha)
        status == IF sim.status # "ok" THEN sim.status
                  ELSE IF ~IndexInRange(sorted_returns, var_index) THEN "IndexError"
                  ELSE "ok"
    IN  [frame |->
           [pc |-> "done", returns |-> returns, confidence_level |-> confidence_level,
            n_simulations |-> n_simulations, horizon |-> horizon, method |-> method,
            alpha |-> alpha, mu |-> mu, sigma2 |-> sigma2,
            status |-> status,
            simulated_returns |-> sim.sample,
            sorted_returns |-> sorted_returns,
            var_index |-> IF sim.status = "ok" THEN var_index ELSE 0,
            var |-> IF status = "ok" THEN Neg(PyIndex(sorted_returns, var_index)) ELSE NaN,
            cvar |-> IF status = "ok" THEN Cvar(TailSlice(sorted_returns, var_index)) ELSE NaN,
            returned |-> (status = "ok")],
         rng |-> IF sim.status = "ok" THEN RngAdvance(r, n_simulations) ELSE r]

\* Inputs of the estimator.
MaxMcLen == 3
MaxSim == 3
McReturnValues == {Q(-1, 2), Q(1, 2)}
McReturnSeries == UNION { [1..n -> McReturnValues] : n \in 1..MaxMcLen }
ConfidenceLevels == {I(0), Q(1, 2), Q(19, 20), I(1)}
Horizons == {1, 2}
MethodStrings == SupportedMethods \cup {"lognormal", "Norm"}

InitMC ==
    /\ mcFrame \in { [pc |-> "call", returns |-> s, confidence_level |-> c,
                      n_simulations |-> n, horizon |-> h, method |-> m] :
                       s \in McReturnSeries, c \in ConfidenceLevels, n \in 1..MaxSim,
                       h \in Horizons, m \in MethodStrings }
    /\ rng \in { [cycle |-> cy, pos |-> 0] : cy \in RngCycles }
    /\ cpFrame = Idle /\ rmFrame = Idle /\ gsFrame = Idle /\ stFrame = Idle

MonteCarloVarCvar ==
    /\ mcFrame.pc = "call"
    /\ \E out \in {monte_carlo_var_cvar(mcFrame.returns, mcFrame.confidence_level,
                                         mcFrame.n_simulations, mcFrame.horizon,
                                         mcFrame.method, rng)} :
           /\ mcFrame' = out.frame
           /\ rng' = out.rng
    /\ UNCHANGED <<cpFrame, rmFrame, gsFrame, stFrame>>

NextMC == MonteCarloVarCvar
SpecMC == InitMC /\ [][NextMC]_vars


IsAscending(a) == \A i, j \in 1..Len(a) : i < j => ~Lt(a[j], a[i])
Count(a, x) == Cardinality({i \in 1..Len(a) : a[i] = x})
IsPermutation(a, b) ==
    /\ Len(a) = Len(b)
    /\ \A i \in 1..Len(a) : Count(a, a[i]) = Count(b, a[i])

\* floor(n * (1 - c)) for a rational c in [0, 1], in integer arithmetic.
FloorIndex(n, c) == (n * (c.d - c.n)) \div c.d

C5_EmptySliceGuarded ==
    (mcFrame.pc = "done" /\ mcFrame.returned /\ mcFrame.var_index = 0) =>
        IsNum(mcFrame.cvar)

\* The series lets the method's sampler estimate its parameters: the scale
\* needs two observations, the skewness three.
ParametersDefined(returns, method) ==
    /\ method = "t" => Len(returns) >= 2
    /\ method = "skewed" => Len(returns) >= 3

RoundHalfEven(t) ==
    LET fl == t.n \div t.d
        twice == 2 * (t.n - fl * t.d)
    IN  IF twice < t.d THEN fl
        ELSE IF twice > t.d THEN fl + 1
        ELSE IF fl % 2 = 0 THEN fl ELSE fl + 1

\* round(x, 4) of a float: NaN and the infinities round to themselves.
Round4(x) == IF ~IsNum(x) THEN x ELSE Q(RoundHalfEven(Mul(x, I(10000))), 10000)

\* round(x, 4) of a value s * sqrt(q): the decimal rounding of an irrational
\* is not computed, the exact value is kept.
Round4Surd(x) == x

\* pandas Series.quantile(q), linear interpolation between order statistics.
Quantile(series, q) ==
    LET v == SortAsc(DropNaN(series))
        pos == Mul(I(Len(v) - 1), q)
        lo == PyInt(pos)
        frac == Sub(pos, I(lo))
    IN  IF Len(v) = 0 THEN NaN
        ELSE IF frac.n = 0 THEN v[lo + 1]
        ELSE Add(v[lo + 1], Mul(frac, Sub(v[lo + 2], v[lo + 1])))

StrictlyBelow(series, bound) ==
    LET Keep(x) == Lt(x, bound) IN SelectSeq(series, Keep)

\* returns[returns <= bound]
AtOrBelow(series, bound) ==
    LET Keep(x) == Le(x, bound) IN SelectSeq(series, Keep)

\* (1 + returns).cumprod()
RECURSIVE CumProdFrom(_, _)
CumProdFrom(acc, s) ==
    IF s = <<>> THEN <<>>
    ELSE IF IsNaN(Head(s)) THEN <<NaN>> \o CumProdFrom(acc, Tail(s))
    ELSE LET nxt == Mul(acc, Head(s)) IN <<nxt>> \o CumProdFrom(nxt, Tail(s))
CumProd(s) == CumProdFrom(I(1), s)

\* Series.cummax()
RECURSIVE CumMaxFrom(_, _)
CumMaxFrom(acc, s) ==
    IF s = <<>> THEN <<>>
    ELSE IF IsNaN(Head(s)) THEN <<NaN>> \o CumMaxFrom(acc, Tail(s))
    ELSE LET nxt == IF IsNaN(acc) \/ Gt(Head(s), acc) THEN Head(s) ELSE acc
         IN  <<nxt>> \o CumMaxFrom(nxt, Tail(s))
CumMax(s) == CumMaxFrom(NaN, s)

\* Series.min(): NaN entries are skipped; NaN when nothing is left.
RECURSIVE MinOf(_)
MinOf(v) ==
    IF Len(v) = 1 THEN v[1]
    ELSE LET m == MinOf(Tail(v)) IN IF Lt(Head(v), m) THEN Head(v) ELSE m
SeriesMin(s) == IF DropNaN(s) = <<>> THEN NaN ELSE MinOf(DropNaN(s))

\* (cumulative / cumulative.cummax() - 1).min()
MaxDrawdown(returns) ==
    LET cumulative == CumProd([i \in 1..Len(returns) |-> Add(I(1), returns[i])])
        peak == CumMax(cumulative)
    IN  SeriesMin([i \in 1..Len(returns) |-> Sub(Div(cumulative[i], peak[i]), I(1))])

Cube(x) == Mul(x, Sq(x))

\* pandas Series.skew(): n*sqrt(n-1)/(n-2) * m3/m2^1.5, NaN below three
\* observations, 0 for a constant series.
Skewness(returns) ==
    LET v == DropNaN(returns)
        n == Len(v)
        m == ArrayMean(v)
        m2 == SumSeq([i \in 1..n |-> Sq(Sub(v[i], m))])
        m3 == SumSeq([i \in 1..n |-> Cube(Sub(v[i], m))])
    IN  IF n < 3 THEN Surd(0, NaN)
        ELSE IF m2.n = 0 THEN Surd(0, I(0))
        ELSE Surd(Sgn(m3), Div(Mul(Q(n * n * (n - 1), (n - 2) * (n - 2)), Sq(m3)), Cube(m2)))

\* pandas Series.kurtosis(): excess kurtosis, NaN below four observations,
\* 0 for a constant series.
Kurtosis(returns) ==
    LET v == DropNaN(returns)
        n == Len(v)
        m == ArrayMean(v)
        m2 == SumSeq([i \in 1..n |-> Sq(Sub(v[i], m))])
        m4 == SumSeq([i \in 1..n |-> Sq(Sq(Sub(v[i], m)))])
    IN  IF n < 4 THEN NaN
        ELSE IF m2.n = 0 THEN I(0)
        ELSE Sub(Div(Mul(I(n * (n + 1) * (n - 1)), m4), Mul(I((n - 2) * (n - 3)), Sq(m2))),
                 Q(3 * (n - 1) * (n - 1), (n - 2) * (n - 3)))

\* returns.std() * np.sqrt(252)
AnnualizedVolatility(sigma2) == Surd(1, Mul(sigma2, I(252)))

\* (excess_return / returns.std()) * np.sqrt(252): the division by a zero
\* standard deviation gives NaN or an infinity, no exception.
SharpeRatio(excess_return, sigma2) ==
    IF IsNaN(sigma2) \/ IsNaN(excess_return) THEN Surd(0, NaN)
    ELSE IF sigma2.n = 0
         THEN (IF excess_return.n = 0 THEN Surd(0, NaN) ELSE Surd(Sgn(excess_return), PInf))
    ELSE Surd(Sgn(excess_return), Div(Mul(Sq(excess_return), I(252)), sigma2))

\* n_simulations of the call on line 112 is the default of line 40 (100000);
\* the model draws a sample of this size, the smallest for which the 5%
\* index int(n * 0.05) is not 0.
DefaultNSimulations == 20
DefaultConfidence == Q(95, 100)

ReturnsSortedInPlace(returns) == SortAsc(returns)

\* The caller's series after the call: lines 107-122 only read `returns`
\* (every operation on it builds a new object), so it is as it was given.
ReturnsAfterCall(returns) == returns

\* The frame of one call after it returned or raised, and the random state
\* it leaves behind.
calculate_risk_metrics(returns, risk_free_rate, mc_method, r) ==
    LET sigma2 == SeriesVar(returns)
        excess_return == Sub(SeriesMean(returns), Div(risk_free_rate, I(252)))
        mc == monte_carlo_var_cvar(returns, DefaultConfidence, DefaultNSimulations, 1, mc_method, r)
        hist_var_95 == Neg(Quantile(returns, Q(5, 100)))
        hist_cvar_95 == Neg(SeriesMean(AtOrBelow(returns, Neg(hist_var_95))))
    IN  [frame |->
           [pc |-> "done", returns |-> ReturnsAfterCall(returns), risk_free_rate |-> risk_free_rate,
            mc_method |-> mc_method,
            status |-> mc.frame.status,
            returned |-> mc.frame.returned,
            metrics |->
              IF ~mc.frame.returned THEN <<>>
              ELSE [AnnualizedVolatility |-> Round4Surd(AnnualizedVolatility(sigma2)),
                    SharpeRatio |-> Round4Surd(SharpeRatio(excess_return, sigma2)),
                    VaR95 |-> Round4(mc.frame.var),
                    CVaR95 |-> Round4(mc.frame.cvar),
                    HistoricalVaR95 |-> Round4(hist_var_95),
                    HistoricalCVaR95 |-> Round4(hist_cvar_95),
                    MaximumDrawdown |-> Round4(MaxDrawdown(returns)),
                    Skewness |-> Round4Surd(Skewness(returns)),
                    Kurtosis |-> Round4(Kurtosis(returns))]],
         rng |-> mc.rng]

\* Inputs of the metrics call.
MaxLen == 3
ReturnValues == {I(-1), Q(-1, 2), I(0), Q(1, 2), I(1)}
ReturnSeries == UNION { [1..n -> ReturnValues] : n \in 1..MaxLen }
RiskFreeRates == {I(0), Q(15, 1000)}
\* States of the random source before a call.  The cycles are long enough
\* for a sample of DefaultNSimulations draws to hold its smallest value once,
\* so that the tail of the sample depends on where in the cycle it starts.
RngSeeds ==
    { [cycle |-> cy, pos |-> 0] :
        cy \in { <<1, 1, 2, 1, 2, 2, 1, 2, 1, 0, 2>>,
                 <<2, 0, 0, 1, 2, 0, 1, 2, 2, 0, 1>>,
                 <<1, 1, 1, 1, 1, 1, 1, 1, 1, 1, 1>> } }

InitMetrics ==
    /\ rmFrame \in { [pc |-> "call", returns |-> s, risk_free_rate |-> f, mc_method |-> m] :
                       s \in ReturnSeries, f \in RiskFreeRates, m \in MethodStrings }
    /\ rng \in RngSeeds
    /\ cpFrame = Idle /\ mcFrame = Idle /\ gsFrame = Idle /\ stFrame = Idle

CalculateRiskMetrics ==
    /\ rmFrame.pc = "call"
    /\ \E out \in {calculate_risk_metrics(rmFrame.returns, rmFrame.risk_free_rate,
                                           rmFrame.mc_method, rng)} :
           /\ rmFrame' = out.frame
           /\ rng' = out.rng
    /\ UNCHANGED <<cpFrame, mcFrame, gsFrame, stFrame>>

NextMetrics == CalculateRiskMetrics
SpecMetrics == InitMetrics /\ [][NextMetrics]_vars

IsConstant(series) == \A i \in 1..Len(series) : series[i] = series[1]

\* C10: for a zero-variance series (all elements equal) the call raises
\* DegenerateDistributionError and returns no record with a NaN or
\* infinite field.
C10_DegenerateRaises ==
    (/\ rmFrame.pc = "done"
     /\ rmFrame.mc_method \in SupportedMethods
     /\ Len(rmFrame.returns) >= 2
     /\ IsConstant(rmFrame.returns))
        => /\ rmFrame.status = "DegenerateDistributionError"
           /\ ~rmFrame.returned

(***************************************************************************)
(* calculate_risk_metrics called twice by one caller on the same series    *)
(* object.  The caller may put the random source back into the state it    *)
(* had before the first call.                                              *)
(***************************************************************************)
InitRepeat ==
    /\ rng \in RngSeeds
    /\ rmFrame \in { [pc |-> "first", returns |-> s, risk_free_rate |-> f,
                      mc_method |-> m, seed |-> r] :
                       s \in ReturnSeries, f \in RiskFreeRates, m \in MethodStrings,
                       r \in {rng} }
    /\ cpFrame = Idle /\ mcFrame = Idle /\ gsFrame = Idle /\ stFrame = Idle

\* The first call; the series the caller holds afterwards is the one the
\* call was given, as the call left it.
RepeatFirstCall ==
    /\ rmFrame.pc = "first"
    /\ \E out \in {calculate_risk_metrics(rmFrame.returns, rmFrame.risk_free_rate,
                                           rmFrame.mc_method, rng)} :
           /\ rmFrame' = [pc |-> "between", returns |-> out.frame.returns,
                          risk_free_rate |-> rmFrame.risk_free_rate,
                          mc_method |-> rmFrame.mc_method, seed |-> rmFrame.seed,
                          first |-> out.frame]
           /\ rng' = out.rng
    /\ UNCHANGED <<cpFrame, mcFrame, gsFrame, stFrame>>

\* The caller seeds the random source as before the first call.
RestoreRandomState ==
    /\ rmFrame.pc = "between"
    /\ rng' = rmFrame.seed
    /\ rmFrame' = [rmFrame EXCEPT !.pc = "seeded"]
    /\ UNCHANGED <<cpFrame, mcFrame, gsFrame, stFrame>>

\* The second call, with or without the seeding in between.
RepeatSecondCall ==
    /\ rmFrame.pc \in {"between", "seeded"}
    /\ \E out \in {calculate_risk_metrics(rmFrame.returns, rmFrame.risk_free_rate,
                                           rmFrame.mc_method, rng)} :
           /\ rmFrame' = [pc |-> "twice", returns |-> out.frame.returns,
                          risk_free_rate |-> rmFrame.risk_free_rate,
                          mc_method |-> rmFrame.mc_method, seed |-> rmFrame.seed,
                          first |-> rmFrame.first, second |-> out.frame,
                          same_seed |-> (rng = rmFrame.seed)]
           /\ rng' = out.rng
    /\ UNCHANGED <<cpFrame, mcFrame, gsFrame, stFrame>>

NextRepeat == RepeatFirstCall \/ RestoreRandomState \/ RepeatSecondCall
SpecRepeat == InitRepeat /\ [][NextRepeat]_vars

PathNonDecreasing(returns) ==
    LET cumulative == CumProd([i \in 1..Len(returns) |-> Add(I(1), returns[i])])
    IN  \A i \in 1..(Len(returns) - 1) : Le(cumulative[i], cumulative[i + 1])

\* C11: for every non-empty return series the Maximum Drawdown of the
\* returned record is <= 0, and it is exactly 0 when the cumulative-product
\* path is monotonically non-decreasing.
C11_MaxDrawdownNonPositive ==
    (rmFrame.pc = "done" /\ rmFrame.returned) =>
        /\ Le(rmFrame.metrics.MaximumDrawdown, I(0))
        /\ PathNonDecreasing(rmFrame.returns) => rmFrame.metrics.MaximumDrawdown = I(0)


(***************************************************************************)
(* generate_correlated_scenario_returns                                    *)
(***************************************************************************)
\* dict.get(key, default)
Get(dict, key, default) == IF key \in DOMAIN dict THEN dict[key] ELSE default

ExtractParamsTailDefaultTwo(shock_params) ==
    [multiplicative |-> Get(shock_params, "multiplicative", I(1)),
     additive |-> Get(shock_params, "additive", I(0)),
     vol_factor |-> Get(shock_params, "vol_factor", I(1)),
     skew_factor |-> Get(shock_params, "skew_factor", I(0)),
     tail_factor |-> Get(shock_params, "tail_factor", I(2))]

\* Lines 154-158.
ExtractParams(shock_params) ==
    [multiplicative |-> Get(shock_params, "multiplicative", I(1)),
     additive |-> Get(shock_params, "additive", I(0)),
     vol_factor |-> Get(shock_params, "vol_factor", I(1)),
     skew_factor |-> Get(shock_params, "skew_factor", I(0)),
     tail_factor |-> Get(shock_params, "tail_factor", I(1))]

\* Line 161: returns * multiplicative + additive
BaseAdjustment(returns, multiplicative, additive) ==
    [i \in 1..Len(returns) |-> Add(Mul(returns[i], multiplicative), additive)]

\* Lines 164-167, with the mean given.
ScaleAround(adjusted_returns, mean_return, vol_factor) ==
    [i \in 1..Len(adjusted_returns) |->
        Add(Mul(Sub(adjusted_returns[i], mean_return), vol_factor), mean_return)]

\* Lines 164-167.
AdjustVolatility(adjusted_returns, vol_factor) ==
    IF vol_factor # I(1)
    THEN ScaleAround(adjusted_returns, SeriesMean(adjusted_returns), vol_factor)
    ELSE adjusted_returns

AmplifyBeyondSigned(adjusted_returns, sigma2, tail_factor) ==
    LET bound == Mul(I(4), sigma2)
    IN  [i \in 1..Len(adjusted_returns) |->
            IF Gt(adjusted_returns[i], I(0)) /\ Gt(Sq(adjusted_returns[i]), bound)
            THEN Mul(adjusted_returns[i], tail_factor)
            ELSE adjusted_returns[i]]

\* Lines 172-177, with the variance behind the threshold given:
\* abs(x) > 2 * std, decided on the squares.
AmplifyBeyond(adjusted_returns, sigma2, tail_factor) ==
    LET bound == Mul(I(4), sigma2)
    IN  [i \in 1..Len(adjusted_returns) |->
            IF Gt(Sq(adjusted_returns[i]), bound)
            THEN Mul(adjusted_returns[i], tail_factor)
            ELSE adjusted_returns[i]]

\* Lines 170-178.
EnhanceTails(adjusted_returns, tail_factor) ==
    IF tail_factor # I(1)
    THEN AmplifyBeyond(adjusted_returns, SeriesVar(adjusted_returns), tail_factor)
    ELSE adjusted_returns

\* Lines 185-188, with the mean and the variance given:
\* skew_factor * z^3 * std / 10 with z = (x - mean) / std is
\* skew_factor * (x - mean)^3 / (10 * std^2), and NaN for std = 0.
SkewAround(adjusted_returns, mean, sigma2, skew_factor) ==
    LET tenVar == Mul(I(10), sigma2)
    IN  [i \in 1..Len(adjusted_returns) |->
            Add(adjusted_returns[i],
                Div(Mul(skew_factor, Cube(Sub(adjusted_returns[i], mean))), tenVar))]

\* Lines 181-188.
ApplySkew(adjusted_returns, skew_factor) ==
    IF skew_factor # I(0)
    THEN SkewAround(adjusted_returns, SeriesMean(adjusted_returns),
                    SeriesVar(adjusted_returns), skew_factor)
    ELSE adjusted_returns

\* The whole function, as its callers see it.
generate_correlated_scenario_returns(returns, shock_params) ==
    LET p == ExtractParams(shock_params)
    IN  ApplySkew(
          EnhanceTails(
            AdjustVolatility(
              BaseAdjustment(returns, p.multiplicative, p.additive),
              p.vol_factor),
            p.tail_factor),
          p.skew_factor)

\* Inputs of the shock model: every subset of the five keys carries a
\* non-identity value, plus the dict that spells the identity values out.
ShockKeys == {"multiplicative", "additive", "vol_factor", "skew_factor", "tail_factor"}
StressValue ==
    [multiplicative |-> Q(1, 2), additive |-> Q(-1, 4), vol_factor |-> I(3),
     skew_factor |-> I(-1), tail_factor |-> I(2)]
IdentityValue ==
    [multiplicative |-> I(1), additive |-> I(0), vol_factor |-> I(1),
     skew_factor |-> I(0), tail_factor |-> I(1)]
CalmValue == [StressValue EXCEPT !.vol_factor = Q(1, 2)]
DampValue == [StressValue EXCEPT !.tail_factor = Q(1, 2)]
ShockParamDicts ==
    { [key \in K |-> v[key]] :
        K \in SUBSET ShockKeys, v \in {StressValue, CalmValue, DampValue} }
        \cup {IdentityValue}

InitShock ==
    /\ gsFrame \in { [pc |-> "call", returns |-> s, shock_params |-> d] :
                       s \in ReturnSeries, d \in ShockParamDicts }
    /\ cpFrame = Idle /\ mcFrame = Idle /\ rmFrame = Idle /\ stFrame = Idle
    /\ rng = NoRng

\* Lines 153-161.
GsBaseAdjustment ==
    /\ gsFrame.pc = "call"
    /\ LET p == ExtractParams(gsFrame.shock_params)
           out == BaseAdjustment(gsFrame.returns, p.multiplicative, p.additive)
       IN  gsFrame' = [pc |-> "base", returns |-> gsFrame.returns,
                       shock_params |-> gsFrame.shock_params, params |-> p,
                       adjusted_returns |-> out,
                       order |-> <<"base">>, after |-> [base |-> out]]
    /\ UNCHANGED <<cpFrame, mcFrame, rmFrame, stFrame, rng>>

GsEnhanceTailsOfInput ==
    /\ gsFrame.pc = "vol"
    /\ LET out == IF gsFrame.params.tail_factor # I(1)
                  THEN AmplifyBeyond(gsFrame.adjusted_returns, SeriesVar(gsFrame.returns),
                                     gsFrame.params.tail_factor)
                  ELSE gsFrame.adjusted_returns
       IN  gsFrame' = [gsFrame EXCEPT !.pc = "tail", !.adjusted_returns = out,
                                      !.order = Append(@, "tail"),
                                      !.after = @ @@ [tail |-> out]]
    /\ UNCHANGED <<cpFrame, mcFrame, rmFrame, stFrame, rng>>

\* Lines 163-167.
GsAdjustVolatility ==
    /\ gsFrame.pc = "base"
    /\ LET out == AdjustVolatility(gsFrame.adjusted_returns, gsFrame.params.vol_factor)
       IN  gsFrame' = [gsFrame EXCEPT !.pc = "vol", !.adjusted_returns = out,
                                      !.order = Append(@, "vol"),
                                      !.after = @ @@ [vol |-> out]]
    /\ UNCHANGED <<cpFrame, mcFrame, rmFrame, stFrame, rng>>

\* Lines 169-178.
GsEnhanceTails ==
    /\ gsFrame.pc = "vol"
    /\ LET out == EnhanceTails(gsFrame.adjusted_returns, gsFrame.params.tail_factor)
       IN  gsFrame' = [gsFrame EXCEPT !.pc = "tail", !.adjusted_returns = out,
                                      !.order = Append(@, "tail"),
                                      !.after = @ @@ [tail |-> out]]
    /\ UNCHANGED <<cpFrame, mcFrame, rmFrame, stFrame, rng>>

\* Lines 180-190: the last stage, and the return.
GsApplySkew ==
    /\ gsFrame.pc = "tail"
    /\ LET out == ApplySkew(gsFrame.adjusted_returns, gsFrame.params.skew_factor)
       IN  gsFrame' = [gsFrame EXCEPT !.pc = "done", !.adjusted_returns = out,
                                      !.order = Append(@, "skew"),
                                      !.after = @ @@ [skew |-> out]]
    /\ UNCHANGED <<cpFrame, mcFrame, rmFrame, stFrame, rng>>

NextShock == GsBaseAdjustment \/ GsAdjustVolatility \/ GsEnhanceTails \/ GsApplySkew
SpecShock == InitShock /\ [][NextShock]_vars

\* The stepwise run and the function its callers use are the same function.
StepsAgreeWithFunction ==
    gsFrame.pc = "done" =>
        gsFrame.adjusted_returns =
            generate_correlated_scenario_returns(gsFrame.returns, gsFrame.shock_params)


(***************************************************************************)
(* stress_test_portfolio                                                   *)
(***************************************************************************)
\* Lines 210-216.
ScenarioShockParams(scenario) ==
    [multiplicative |-> Add(I(1), Get(scenario, "shock", I(0))),
     additive |-> Get(scenario, "additive", I(0)),
     vol_factor |-> Get(scenario, "vol_factor", I(1)),
     skew_factor |-> Get(scenario, "skew_factor", I(0)),
     tail_factor |-> Get(scenario, "tail_factor", I(1))]

\* Lines 210-220 for one scenario: the shock, the metrics, and the store
\* under scenario['name'] (KeyError when the scenario has no name).
StressOne(returns, scenario, mc_method, r) ==
    LET shock_params == ScenarioShockParams(scenario)
        Store(stressed_returns, rm) ==
            [shock_params |-> shock_params,
             stressed_returns |-> stressed_returns,
             metrics |-> rm.frame.metrics,
             status |-> IF ~rm.frame.returned THEN rm.frame.status
                        ELSE IF "name" \notin DOMAIN scenario THEN "KeyError"
                        ELSE "ok",
             rng |-> rm.rng]
        Measure(stressed_returns) ==
            Store(stressed_returns,
                  calculate_risk_metrics(stressed_returns, I(0), mc_method, r))
    IN  Measure(generate_correlated_scenario_returns(returns, shock_params))

\* Inputs of the stress test.
MaxScenarios == 2
MaxBaselineLen == 2
BaselineValues == {Q(-1, 2), Q(1, 2), I(1)}
BaselineSeries == [1..MaxBaselineLen -> BaselineValues]
ScenarioPool ==
    { [name |-> "A"],
      [name |-> "A", shock |-> Q(-1, 2), additive |-> Q(-1, 4), vol_factor |-> I(2),
       skew_factor |-> I(-1), tail_factor |-> I(2)],
      [name |-> "B", shock |-> Q(-1, 2), tail_factor |-> I(2)],
      [name |-> "C", vol_factor |-> I(2)],
      [shock |-> Q(-1, 2)] }
ScenarioLists == UNION { [1..n -> ScenarioPool] : n \in 0..MaxScenarios }
StressMethods == {"t", "lognormal"}

InitStress ==
    /\ stFrame \in { [pc |-> "loop", returns |-> s, scenarios |-> l, mc_method |-> m,
                      i |-> 1, stressed_results |-> <<>>, status |-> "ok",
                      processed |-> <<>>] :
                       s \in BaselineSeries, l \in ScenarioLists, m \in StressMethods }
    /\ rng \in RngSeeds
    /\ cpFrame = Idle /\ mcFrame = Idle /\ rmFrame = Idle /\ gsFrame = Idle

StoreResultFirstWins(stressed_results, name, metrics) ==
    stressed_results @@ (name :> metrics)

\* Line 220: stressed_results[scenario['name']] = metrics
StoreResult(stressed_results, name, metrics) ==
    (name :> metrics) @@ stressed_results

\* The frame after one pass of the loop body whose outcome is `one`.
AfterScenario(frame, scenario, one) ==
    LET entry == [scenario |-> scenario, shock_params |-> one.shock_params,
                  stressed_returns |-> one.stressed_returns,
                  metrics |-> one.metrics, status |-> one.status]
    IN  IF one.status = "ok"
        THEN [frame EXCEPT
                !.i = @ + 1,
                !.stressed_results = StoreResult(@, scenario["name"], one.metrics),
                !.processed = Append(@, entry)]
        ELSE [frame EXCEPT
                !.pc = "raised",
                !.status = one.status,
                !.processed = Append(@, entry)]

\* The series a pass shocks, were the shock applied to the output of the
\* pass before it.
PreviousOutput(frame) ==
    IF frame.processed = <<>> THEN frame.returns
    ELSE frame.processed[Len(frame.processed)].stressed_returns

StScenarioChained ==
    /\ stFrame.pc = "loop"
    /\ stFrame.i <= Len(stFrame.scenarios)
    /\ \E one \in {StressOne(PreviousOutput(stFrame), stFrame.scenarios[stFrame.i],
                              stFrame.mc_method, rng)} :
           /\ stFrame' = AfterScenario(stFrame, stFrame.scenarios[stFrame.i], one)
           /\ rng' = one.rng
    /\ UNCHANGED <<cpFrame, mcFrame, rmFrame, gsFrame>>

StScenarioSwallowing ==
    /\ stFrame.pc = "loop"
    /\ stFrame.i <= Len(stFrame.scenarios)
    /\ \E one \in {StressOne(stFrame.returns, stFrame.scenarios[stFrame.i],
                              stFrame.mc_method, rng)} :
           /\ stFrame' =
                IF one.status = "ok"
                THEN AfterScenario(stFrame, stFrame.scenarios[stFrame.i], one)
                ELSE [stFrame EXCEPT !.i = @ + 1]
           /\ rng' = one.rng
    /\ UNCHANGED <<cpFrame, mcFrame, rmFrame, gsFrame>>

\* One pass of the loop body, lines 209-220.
StScenario ==
    /\ stFrame.pc = "loop"
    /\ stFrame.i <= Len(stFrame.scenarios)
    /\ \E one \in {StressOne(stFrame.returns, stFrame.scenarios[stFrame.i],
                              stFrame.mc_method, rng)} :
           /\ stFrame' = AfterScenario(stFrame, stFrame.scenarios[stFrame.i], one)
           /\ rng' = one.rng
    /\ UNCHANGED <<cpFrame, mcFrame, rmFrame, gsFrame>>

\* Line 222: the loop is over, the map is returned.
StReturn ==
    /\ stFrame.pc = "loop"
    /\ stFrame.i > Len(stFrame.scenarios)
    /\ stFrame' = [stFrame EXCEPT !.pc = "done"]
    /\ UNCHANGED <<cpFrame, mcFrame, rmFrame, gsFrame, rng>>

NextStress == StScenario \/ StReturn
SpecStress == InitStress /\ [][NextStress]_vars

\* The shock model called directly, and through the stress test.
InitScenario == InitShock \/ InitStress
NextScenario == NextShock \/ NextStress
SpecScenario == InitScenario /\ [][NextScenario]_vars

\* The whole module.
Init == InitPortfolio \/ InitMC \/ InitMetrics \/ InitShock \/ InitStress \/ InitRepeat
Next == NextPortfolio \/ NextMC \/ NextMetrics \/ NextShock \/ NextStress \/ NextRepeat
Spec == Init /\ [][Next]_vars


\* The value a key of a parameter dict stands for: its own, or the identity.
Effective(dict, key) == IF key \in DOMAIN dict THEN dict[key] ELSE IdentityValue[key]
AllDefault(dict) == \A key \in ShockKeys : Effective(dict, key) = IdentityValue[key]

\* C1: with all-default parameters the shock model returns the input series
\* element by element, and the stress test maps a scenario that carries
\* only a name to exactly the default parameters.
C1_DefaultScenarioIsIdentity ==
    /\ (gsFrame.pc = "done" /\ AllDefault(gsFrame.shock_params)) =>
          /\ Len(gsFrame.adjusted_returns) = Len(gsFrame.returns)
          /\ \A i \in 1..Len(gsFrame.returns) :
                gsFrame.adjusted_returns[i] = gsFrame.returns[i]
    /\ stFrame.pc # "idle" =>
          \A k \in 1..Len(stFrame.processed) :
             DOMAIN stFrame.processed[k].scenario = {"name"} =>
                /\ stFrame.processed[k].shock_params = IdentityValue
                /\ stFrame.processed[k].stressed_returns = stFrame.returns

C1_Witness ==
    /\ stFrame.pc = "done"
    /\ stFrame.returns[1] # stFrame.returns[2]
    /\ \E k \in 1..Len(stFrame.processed) :
          /\ DOMAIN stFrame.processed[k].scenario = {"name"}
          /\ stFrame.processed[k].stressed_returns = stFrame.returns
          /\ stFrame.processed[k].scenario["name"] \in DOMAIN stFrame.stressed_results

StageOrder == <<"base", "vol", "tail", "skew">>

\* C2: the four stages run in the order level shift, volatility scaling,
\* tail amplification, skew injection, and each stage's statistics are
\* those of the series the stage before it produced: the mean of the
\* level-shifted series, the variance of the volatility-scaled series
\* behind the 2-sigma threshold, the mean and variance of the
\* tail-amplified series.
C2_StagesReadPreviousStage ==
    /\ gsFrame.pc \in {"base", "vol", "tail", "done"} =>
          gsFrame.order = SubSeq(StageOrder, 1, Len(gsFrame.order))
    /\ gsFrame.pc = "done" =>
          LET d == gsFrame.shock_params
              s0 == gsFrame.returns
              s1 == gsFrame.after.base
              s2 == gsFrame.after.vol
              s3 == gsFrame.after.tail
              s4 == gsFrame.after.skew
              vf == Effective(d, "vol_factor")
              tf == Effective(d, "tail_factor")
              sf == Effective(d, "skew_factor")
              m1 == SeriesMean(s1)
              v2 == SeriesVar(s2)
              m3 == SeriesMean(s3)
              v3 == SeriesVar(s3)
          IN  /\ gsFrame.order = StageOrder
              /\ gsFrame.adjusted_returns = s4
              /\ \A i \in 1..Len(s0) :
                    /\ s1[i] = Add(Mul(s0[i], Effective(d, "multiplicative")),
                                   Effective(d, "additive"))
                    /\ s2[i] = IF vf = I(1) THEN s1[i]
                               ELSE Add(Mul(Sub(s1[i], m1), vf), m1)
                    /\ s3[i] = IF tf # I(1) /\ Gt(Sq(s2[i]), Mul(I(4), v2))
                               THEN Mul(s2[i], tf) ELSE s2[i]
                    /\ s4[i] = IF sf = I(0) THEN s3[i]
                               ELSE Add(s3[i], Div(Mul(sf, Cube(Sub(s3[i], m3))),
                                                   Mul(I(10), v3)))

C2_Witness ==
    /\ gsFrame.pc = "done"
    /\ DOMAIN gsFrame.shock_params = ShockKeys
    /\ gsFrame.shock_params # IdentityValue
    /\ \E i \in 1..Len(gsFrame.returns) :
          gsFrame.after.tail[i] = Mul(gsFrame.after.vol[i], I(2))
    /\ gsFrame.after.base # gsFrame.returns
    /\ gsFrame.after.vol # gsFrame.after.base
    /\ gsFrame.after.tail # gsFrame.after.vol
    /\ gsFrame.after.skew # gsFrame.after.tail
    /\ \A i \in 1..Len(gsFrame.adjusted_returns) : IsNum(gsFrame.adjusted_returns[i])
    /\ SeriesMean(gsFrame.after.base) # SeriesMean(gsFrame.returns)
    /\ SeriesVar(gsFrame.after.vol) # SeriesVar(gsFrame.returns)
    /\ AmplifyBeyond(gsFrame.after.vol, SeriesVar(gsFrame.returns),
                     gsFrame.params.tail_factor) # gsFrame.after.tail


StressCalled == stFrame.pc \in {"loop", "done", "raised"}

\* C12: after the stress test has processed a list of scenarios without
\* error, the keys of the returned map are exactly the scenario names of
\* the list, and a name that occurs more than once maps to the record
\* computed in the pass of the last scenario carrying it.
C12_LastWriteWins ==
    stFrame.pc = "done" =>
        LET sc == stFrame.scenarios
            n == Len(sc)
        IN  /\ Len(stFrame.processed) = n
            /\ DOMAIN stFrame.stressed_results = {sc[i].name : i \in 1..n}
            /\ \A i \in 1..n :
                  /\ stFrame.processed[i].scenario = sc[i]
                  /\ (\A j \in (i + 1)..n : sc[j].name # sc[i].name) =>
                        stFrame.stressed_results[sc[i].name] = stFrame.processed[i].metrics

C12_Witness ==
    /\ stFrame.pc = "done"
    /\ Len(stFrame.scenarios) = 2
    /\ stFrame.scenarios[1].name = stFrame.scenarios[2].name
    /\ stFrame.processed[1].metrics # stFrame.processed[2].metrics
    /\ stFrame.stressed_results[stFrame.scenarios[1].name] = stFrame.processed[2].metrics

\* Every pass so far shocked the baseline series of the call.
EachShockOnBaseline ==
    StressCalled =>
        \A i \in 1..Len(stFrame.processed) :
            stFrame.processed[i].stressed_returns =
                generate_correlated_scenario_returns(
                    stFrame.returns, ScenarioShockParams(stFrame.scenarios[i]))

\* No step of either function writes the series it was given.
BaselineKept ==
    /\ StressCalled =>
          /\ stFrame'.returns = stFrame.returns
          /\ stFrame'.scenarios = stFrame.scenarios
    /\ gsFrame.pc # "idle" =>
          /\ gsFrame'.returns = gsFrame.returns
          /\ gsFrame'.shock_params = gsFrame.shock_params

\* C13: every scenario's shock is applied to the original baseline series,
\* never to another scenario's stressed output, so a scenario's stressed
\* series is a function of the baseline and that scenario alone; and no
\* step of the stress test or of the shock model modifies the series passed
\* in, whatever the parameters.
C13_ScenariosIndependent == [](EachShockOnBaseline) /\ [][BaselineKept]_vars

C13_Witness ==
    /\ stFrame.pc = "done"
    /\ Len(stFrame.processed) = 2
    /\ stFrame.processed[1].stressed_returns # stFrame.returns
    /\ stFrame.processed[2].stressed_returns # stFrame.processed[1].stressed_returns
    /\ stFrame.processed[2].stressed_returns #
          generate_correlated_scenario_returns(
              stFrame.processed[1].stressed_returns, stFrame.processed[2].shock_params)

\* The pass of scenario k raises: the metric computation fails, or the
\* scenario has no 'name' to store the record under.
PassRaises(k) ==
    \/ stFrame.mc_method \notin SupportedMethods
    \/ "name" \notin DOMAIN stFrame.scenarios[k]

\* A pass that raised ended the call: it is the last one processed, its
\* error is the call's outcome and no map was returned.
ErrorEndsCall ==
    StressCalled =>
        /\ \A k \in 1..Len(stFrame.processed) :
              /\ PassRaises(k) => stFrame.processed[k].status # "ok"
              /\ stFrame.processed[k].status # "ok" =>
                    /\ stFrame.pc = "raised"
                    /\ k = Len(stFrame.processed)
                    /\ stFrame.status = stFrame.processed[k].status
        /\ stFrame.pc = "raised" =>
              /\ stFrame.processed # <<>>
              /\ stFrame.processed[Len(stFrame.processed)].status # "ok"
        /\ stFrame.pc = "done" =>
              \A k \in 1..Len(stFrame.scenarios) : ~PassRaises(k)

\* C14: the stress test catches nothing: when the pass of the k-th scenario
\* raises, the error is the outcome of the call, no result map is returned
\* and no later scenario is processed.
C14_ErrorsPropagate ==
    [](ErrorEndsCall) /\ [][stFrame.pc = "raised" => stFrame' = stFrame]_vars

C14_Witness ==
    /\ stFrame.pc = "raised"
    /\ stFrame.status = "KeyError"
    /\ Len(stFrame.scenarios) = 2
    /\ Len(stFrame.processed) = 1
    /\ "name" \in DOMAIN stFrame.scenarios[2]

\* abs(x) > 2 * std for a series of variance sigma2 = std^2: both sides are
\* non-negative, so the comparison is the one of the squares; it is false
\* when the standard deviation is NaN.
BeyondTwoSigma(x, sigma2) == Gt(Sq(x), Mul(I(4), sigma2))

\* C16: with tail_factor != 1 the tail stage multiplies by tail_factor
\* exactly the elements of the volatility-scaled series whose absolute
\* value is strictly greater than 2 standard deviations of that series and
\* leaves every other element as it is; length and order are unchanged.
C16_TailAmplificationFrame ==
    (gsFrame.pc \in {"tail", "done"} /\ gsFrame.params.tail_factor # I(1)) =>
        LET before == gsFrame.after.vol
            after == gsFrame.after.tail
            sigma2 == SeriesVar(before)
        IN  /\ Len(after) = Len(before)
            /\ \A i \in 1..Len(before) :
                  after[i] = IF BeyondTwoSigma(before[i], sigma2)
                             THEN Mul(before[i], gsFrame.params.tail_factor)
                             ELSE before[i]

C16_Witness ==
    /\ gsFrame.pc = "tail"
    /\ gsFrame.params.tail_factor # I(1)
    /\ \E i, j \in 1..Len(gsFrame.returns) :
          /\ Lt(gsFrame.after.vol[i], I(0))
          /\ gsFrame.after.tail[i] # gsFrame.after.vol[i]
          /\ gsFrame.after.tail[i] = Mul(gsFrame.after.vol[i], gsFrame.params.tail_factor)
          /\ gsFrame.after.vol[j] # I(0)
          /\ gsFrame.after.tail[j] = gsFrame.after.vol[j]

\* C17: for every n_simulations >= 1 and every confidence level c with
\* 0 <= c <= 1 the index computed by the estimator is a position of the
\* sorted sample, 0 <= index < n_simulations, and the VaR lookup succeeds.
C17_IndexInSample ==
    (/\ mcFrame.pc = "done"
     /\ Len(mcFrame.simulated_returns) = mcFrame.n_simulations
     /\ Ge(mcFrame.confidence_level, I(0))
     /\ Le(mcFrame.confidence_level, I(1)))
        => /\ 0 <= mcFrame.var_index
           /\ mcFrame.var_index < mcFrame.n_simulations
           /\ mcFrame.status # "IndexError"

\* The observations the Historical CVaR averages: those at or below the
\* empirical 5% quantile of the series.
HistoricalTail(returns) == AtOrBelow(returns, Quantile(returns, Q(5, 100)))

\* C18: for every non-empty series of a returned record the set of
\* observations averaged for the Historical CVaR is non-empty, and the
\* Historical CVaR is >= the Historical VaR.
C18_HistoricalCvarAtLeastVar ==
    (rmFrame.pc = "done" /\ rmFrame.returned) =>
        /\ HistoricalTail(rmFrame.returns) # <<>>
        /\ IsNum(rmFrame.metrics.HistoricalCVaR95)
        /\ Ge(rmFrame.metrics.HistoricalCVaR95, rmFrame.metrics.HistoricalVaR95)

C18_Witness ==
    /\ rmFrame.pc = "done"
    /\ rmFrame.returned
    /\ Len(rmFrame.returns) = 3
    /\ Len(HistoricalTail(rmFrame.returns)) = 1
    /\ Gt(rmFrame.metrics.HistoricalCVaR95, rmFrame.metrics.HistoricalVaR95)

=============================================================================
